---- MODULE Spec2Model ----
(***************************************************************************)
(* Index snapshot reconciliation pipeline of global_indices_data_py:       *)
(* index.js (daily job + /trigger), its value-only revision                *)
(* (src/unnamed/part_003) and the one-time script save_entry.js, all       *)
(* writing the same MongoDB collection.                                    *)
(*                                                                         *)
(* A JavaScript string is a sequence of one-character strings.  A number   *)
(* produced by parseFloat is a normalised decimal [m, e] = m / 10^e, or    *)
(* NaN.  A date is the number of a civil day; the stored Date of day d is  *)
(* the instant d T00:00:00.000Z.                                           *)
(***************************************************************************)
EXTENDS Integers, Sequences, FiniteSets, Bags, TLC

\* ------------------------------------------------------------------ bounds

\* Pipeline runs that may be in flight at once (run slots).
MaxRuns == 2
\* Tracked indices taken from the head of the configured list.
NumTracked == 2
\* Last civil day (Asia/Kolkata) the clock reaches; the first one is day 1.
MaxDay == 2
\* Documents the collection may hold.
MaxStore == 3
\* Entries of the payload in a call of findEntry made on its own.
MaxEntries == 3
\* Characters of the prev_close string in a call of the parser made on its own.
MaxRaw == 5
\* Civil days (UTC) the instants of the date computation range over.
MaxInstantDays == 3

\* ------------------------------------------------------------ JS strings

\* The value of a field the upstream entry does not carry (JS undefined).
\* It differs from every string: a string holds one-character elements only.
Undefined == <<"undefined">>

IsString(v) == v # Undefined

Digits == {"0", "1", "2", "3", "4", "5", "6", "7", "8", "9"}

DigitVal ==
  [c \in Digits |->
     CASE c = "0" -> 0 [] c = "1" -> 1 [] c = "2" -> 2 [] c = "3" -> 3
       [] c = "4" -> 4 [] c = "5" -> 5 [] c = "6" -> 6 [] c = "7" -> 7
       [] c = "8" -> 8 [] c = "9" -> 9]

LowerLetters ==
  <<"a", "b", "c", "d", "e", "f", "g", "h", "i", "j", "k", "l", "m",
    "n", "o", "p", "q", "r", "s", "t", "u", "v", "w", "x", "y", "z">>

UpperLetters ==
  <<"A", "B", "C", "D", "E", "F", "G", "H", "I", "J", "K", "L", "M",
    "N", "O", "P", "Q", "R", "S", "T", "U", "V", "W", "X", "Y", "Z">>

\* Position of character c in the alphabet letters, 0 when it is not there.
LetterPos(letters, c) ==
  IF \E k \in 1..26 : letters[k] = c
    THEN CHOOSE k \in 1..26 : letters[k] = c
    ELSE 0

\* String.prototype.toUpperCase
toUpperCase(s) ==
  [k \in 1..Len(s) |->
     IF LetterPos(LowerLetters, s[k]) # 0
       THEN UpperLetters[LetterPos(LowerLetters, s[k])]
       ELSE s[k]]

\* String.prototype.toLowerCase
toLowerCase(s) ==
  [k \in 1..Len(s) |->
     IF LetterPos(UpperLetters, s[k]) # 0
       THEN LowerLetters[LetterPos(UpperLetters, s[k])]
       ELSE s[k]]

\* String.prototype.startsWith
startsWith(s, prefix) ==
  /\ Len(prefix) <= Len(s)
  /\ SubSeq(s, 1, Len(prefix)) = prefix

\* String.prototype.includes
includes(s, part) ==
  \E k \in 0..(Len(s) - Len(part)) : SubSeq(s, k + 1, k + Len(part)) = part

\* ---------------------------------------------------------- JS numbers

\* NaN is the one value that is no number m / 10^e.
NaN == [m |-> 0, e |-> -1]

\* m / 10^e without trailing fractional zeros, so that equal numbers are
\* equal records (the === of index.js:194).
RECURSIVE Normalise(_, _)
Normalise(m, e) ==
  IF e > 0 /\ m % 10 = 0 THEN Normalise(m \div 10, e - 1) ELSE [m |-> m, e |-> e]

\* Value of a sequence of digits read as a decimal numeral, after acc.
RECURSIVE DigitsValue(_, _)
DigitsValue(ds, acc) ==
  IF ds = <<>> THEN acc ELSE DigitsValue(Tail(ds), acc * 10 + DigitVal[Head(ds)])

\* Longest prefix of s made of digits only.
RECURSIVE LeadingDigits(_)
LeadingDigits(s) ==
  IF s = <<>> \/ Head(s) \notin Digits
    THEN <<>>
    ELSE <<Head(s)>> \o LeadingDigits(Tail(s))

\* A replace that leaves the sign in.
StripNonNumeric_KeepsSign(raw) ==
  SelectSeq(raw, LAMBDA c : c \in Digits \/ c = "." \/ c = "-")

\* A replace that leaves the thousands separators in.
StripNonNumeric_KeepsCommas(raw) ==
  SelectSeq(raw, LAMBDA c : c \in Digits \/ c = "." \/ c = ",")

\* raw.replace(/[^0-9.]/g, '')
StripNonNumeric(raw) == SelectSeq(raw, LAMBDA c : c \in Digits \/ c = ".")

\* parseFloat applied to a string of digits, points and signs: the longest
\* prefix that is a decimal numeral, with a sign before it or without, is
\* converted, what follows it is ignored, and a prefix without any digit
\* gives NaN.
parseFloat(s) ==
  LET signed == s # <<>> /\ Head(s) \in {"-", "+"}
      body == IF signed THEN Tail(s) ELSE s
      ip   == LeadingDigits(body)
      rest == SubSeq(body, Len(ip) + 1, Len(body))
      fp   == IF rest # <<>> /\ Head(rest) = "."
                THEN LeadingDigits(Tail(rest))
                ELSE <<>>
      abs  == Normalise(DigitsValue(ip \o fp, 0), Len(fp))
  IN IF ip = <<>> /\ fp = <<>>
       THEN NaN
       ELSE IF signed /\ Head(s) = "-"
         THEN [m |-> 0 - abs.m, e |-> abs.e]
         ELSE abs

\* const parsed = parseFloat(raw.replace(/[^0-9.]/g, ''))
parseClose(raw) == parseFloat(StripNonNumeric(raw))

\* An isNaN that never answers true.
isNaN_Never(n) == FALSE

isNaN(n) == n = NaN

\* -------------------------------------------------------- configuration

\* async function fetchWithRetry(url, attempts = 3, delayMs = 1000)
attempts == 3

\* const indices = [ { key, label, holidayCalendar }, ... ]
AllIndices ==
  << [key |-> "gift-nifty", holidayCalendar |-> "IN",
      label |-> <<"G", "I", "F", "T", " ", "N", "I", "F", "T", "Y">>],
     [key |-> "dow", holidayCalendar |-> "US",
      label |-> <<"D", "o", "w">>],
     [key |-> "nasdaq", holidayCalendar |-> "US",
      label |-> <<"N", "A", "S", "D", "A", "Q">>],
     [key |-> "sandp", holidayCalendar |-> "US",
      label |-> <<"S", "&", "P">>],
     [key |-> "nikkei", holidayCalendar |-> "JP",
      label |-> <<"N", "I", "K", "K", "E", "I">>],
     [key |-> "hang", holidayCalendar |-> "HK",
      label |-> <<"H", "A", "N", "G", " ", "S", "E", "N", "G">>],
     [key |-> "dax", holidayCalendar |-> "DE",
      label |-> <<"D", "A", "X">>],
     [key |-> "cac", holidayCalendar |-> "FR",
      label |-> <<"C", "A", "C">>],
     [key |-> "ftse", holidayCalendar |-> "GB",
      label |-> <<"F", "T", "S", "E", " ", "1", "0", "0">>],
     [key |-> "kospi", holidayCalendar |-> "KR",
      label |-> <<"K", "O", "S", "P", "I">>] >>

\* The tracked indices a run walks through, in configuration order.
indices == SubSeq(AllIndices, 1, NumTracked)

Calendars == {AllIndices[k].holidayCalendar : k \in 1..Len(AllIndices)}

\* The three programs that write the collection.
IndexJs == "index.js"
Part003 == "part_003"
SaveEntryJs == "save_entry.js"

\* ------------------------------------------------------- Entry Resolver

DOW == <<"D", "O", "W">>
Dow == <<"D", "o", "w">>
dow == <<"d", "o", "w">>

NullEntry == [kind |-> "null", pos |-> 0]

\* Array.prototype.find over the entries' names: the first entry, in payload
\* order, that passes the test.  Reading .toUpperCase / .toLowerCase of a
\* name that is not a string throws a TypeError, which ends the scan.
find(data, Test(_)) ==
  LET stops == {k \in 1..Len(data) :
                  \/ ~IsString(data[k].name)
                  \/ Test(data[k].name)}
  IN IF stops = {}
       THEN NullEntry
       ELSE LET k == CHOOSE x \in stops : \A y \in stops : x <= y
            IN IF IsString(data[k].name)
                 THEN [kind |-> "entry", pos |-> k]
                 ELSE [kind |-> "throw", pos |-> k]

\* findEntry with the substring tier tried before the prefix tier.
findEntry_SubstringFirst(data, searchLabel) ==
  LET exactMatch == find(data, LAMBDA n : startsWith(toUpperCase(n), searchLabel))
      containsMatch == find(data, LAMBDA n : includes(toUpperCase(n), searchLabel))
  IN IF containsMatch.kind # "null" THEN containsMatch ELSE exactMatch

\* findEntry without the special case of the Dow label.
findEntry_NoDowCase(data, searchLabel) ==
  LET exactMatch == find(data, LAMBDA n : startsWith(toUpperCase(n), searchLabel))
      containsMatch == find(data, LAMBDA n : includes(toUpperCase(n), searchLabel))
  IN IF exactMatch.kind # "null" THEN exactMatch ELSE containsMatch

\* function findEntry(data, searchLabel)
findEntry(data, searchLabel) ==
  LET dowEntry == find(data, LAMBDA n : startsWith(toLowerCase(n), dow))
      exactMatch == find(data, LAMBDA n : startsWith(toUpperCase(n), searchLabel))
      containsMatch == find(data, LAMBDA n : includes(toUpperCase(n), searchLabel))
  IN IF (searchLabel = DOW \/ searchLabel = Dow) /\ dowEntry.kind # "null"
       THEN dowEntry
       ELSE IF exactMatch.kind # "null"
              THEN exactMatch
              ELSE containsMatch

\* ------------------------------------------------------ upstream payloads

Str_GIFT_NIFTY == <<"G", "I", "F", "T", " ", "N", "I", "F", "T", "Y">>
Str_Dow_Jones == <<"D", "o", "w", " ", "J", "o", "n", "e", "s">>

eGift == [name |-> Str_GIFT_NIFTY, prev_close |-> <<"2", "3", ",", "1", "2", "0">>]
eDowA == [name |-> Str_Dow_Jones,
          prev_close |-> <<"4", "1", ",", "9", "8", "5", ".", "6", "3">>]
eDowB == [name |-> Str_Dow_Jones,
          prev_close |-> <<"-", "4", "2", ",", "0", "0", "1", ".", "1", "0">>]
eDowNA == [name |-> Str_Dow_Jones, prev_close |-> <<"N", "/", "A">>]
eGiftNA == [name |-> Str_GIFT_NIFTY, prev_close |-> <<"-">>]
eDowNoClose == [name |-> Str_Dow_Jones, prev_close |-> Undefined]
eNoName == [name |-> Undefined, prev_close |-> <<"1">>]

\* Bodies the upstream URL answers with (res.data): the expected shape
\* { success, data: [ { name, prev_close }, ... ] } and departures from it.
Payloads ==
  << [success |-> TRUE,  isArray |-> TRUE,  data |-> <<eGift, eDowA>>],
     [success |-> TRUE,  isArray |-> TRUE,  data |-> <<eDowB>>],
     [success |-> FALSE, isArray |-> TRUE,  data |-> <<eGift, eDowA>>],
     [success |-> TRUE,  isArray |-> FALSE, data |-> <<>>],
     [success |-> TRUE,  isArray |-> TRUE,  data |-> <<eNoName, eGift>>],
     [success |-> TRUE,  isArray |-> TRUE,  data |-> <<eDowNA>>],
     [success |-> TRUE,  isArray |-> TRUE,  data |-> <<eDowNoClose>>],
     [success |-> TRUE,  isArray |-> TRUE,  data |-> <<eGiftNA, eDowA>>] >>

PayloadIds == 1..Len(Payloads)

\* The shape check with the success flag forgotten.
ValidShape_IgnoresFlag(body) == body.isArray

\* !(!res.data.success || !Array.isArray(res.data.data))
ValidShape(body) == body.success /\ body.isArray

\* ------------------------------------------------ Reconciliation Store

\* The collection is a bag of documents { index, date, close }: the _id of a
\* document is not modelled, so equal documents are told apart by count only.

\* What findOne resolves to when no document matches.
Null == [index |-> "", date |-> -1, close |-> NaN]

Doc(key, date, close) == [index |-> key, date |-> date, close |-> close]

\* The documents of (key, date) in a collection.
DocsOfKey(docs, key, date) ==
  {x \in BagToSet(docs) : x.index = key /\ x.date = date}

\* The number of documents of (key, date) in a collection.
CountKey(docs, key, date) ==
  LET hit == DocsOfKey(docs, key, date)
  IN BagCardinality([x \in hit |-> docs[x]])

\* CloseModel.findOne({ index: key }).sort({ date: -1 }): a document of the
\* index with the greatest date; any of them when several share that date.
findOneLatest(docs, key) ==
  LET mine == {x \in BagToSet(docs) : x.index = key}
  IN IF mine = {}
       THEN {Null}
       ELSE {x \in mine : \A y \in mine : y.date <= x.date}

\* An update whose filter lacks the date: one document of the index, of any
\* date, gets the close and the date.
updateOne_AnyDate(docs, key, date, close) ==
  LET hit == {x \in BagToSet(docs) : x.index = key}
  IN IF hit = {}
       THEN {docs (+) SetToBag({Doc(key, date, close)})}
       ELSE {(docs (-) SetToBag({x})) (+) SetToBag({Doc(key, date, close)}) :
               x \in hit}

\* An update that replaces every document of the index by the new one.
updateOne_ReplacesIndex(docs, key, date, close) ==
  LET others == {x \in BagToSet(docs) : x.index # key}
  IN {[x \in others |-> docs[x]] (+) SetToBag({Doc(key, date, close)})}

\* updateOne with the filter forgotten: an insert whatever the collection holds.
updateOne_AlwaysInserts(docs, key, date, close) ==
  {docs (+) SetToBag({Doc(key, date, close)})}

\* CloseModel.updateOne({ index, date }, { $set: { close } }, { upsert: true }):
\* one matching document gets the close (the first one the server finds, any
\* of them when several match), and a new document is inserted when none
\* matches.  The result is the set of collections the call can leave.
updateOne(docs, key, date, close) ==
  LET hit == DocsOfKey(docs, key, date)
  IN IF hit = {}
       THEN {docs (+) SetToBag({Doc(key, date, close)})}
       ELSE {(docs (-) SetToBag({x})) (+) SetToBag({Doc(key, date, close)}) :
               x \in hit}

\* new CloseModel({ index, date, close }).save(): always a new document.
save(docs, key, date, close) ==
  {docs (+) SetToBag({Doc(key, date, close)})}

\* The duplicate check of index.js:192-194 and save_entry.js:194-197.
UnchangedOnDate(last, date, closeVal) ==
  last # Null /\ last.date = date /\ last.close = closeVal

\* The duplicate check of part_003:181.
UnchangedValue(last, closeVal) ==
  last # Null /\ last.close = closeVal

\* The value-only check in every program.
SkipsWrite_ValueOnly(prog, last, date, closeVal) == UnchangedValue(last, closeVal)

\* Whether a program skips the write after reading last.
SkipsWrite(prog, last, date, closeVal) ==
  IF prog = Part003
    THEN UnchangedValue(last, closeVal)
    ELSE UnchangedOnDate(last, date, closeVal)

\* ---------------------------------------------------------------- state

VARIABLES
  store,       \* the collection global_indices_historical_data
  runs,        \* the pipeline runs, one record per run slot
  today,       \* the civil day in Asia/Kolkata
  cronDue,     \* the 02:00 job of today has not fired yet
  revision,    \* the revision of index.js the server process executes
  isTestMode,  \* process.argv.includes('--test')
  holidays,    \* date-holidays: for each market calendar, the trading
               \* dates for which the lookup of a run answers a holiday
  env,         \* process.env after dotenv: which required variables are set
  boot,        \* what the top-level code of index.js has set up, and how a
               \* start of save_entry.js ended
  call         \* one call of findEntry, of the close parser or of the date
               \* computation, or one request of a read endpoint: arguments
               \* and result

vars ==
  <<store, runs, today, cronDue, revision, isTestMode, holidays, env, boot, call>>

Slots == 1..MaxRuns

\* Days a run can compute as the previous day.
Days == 0..(MaxDay - 1)

NoHolidays == [c \in Calendars |-> {}]

\* The calendars the model draws from: no holiday at all, or day 0 a holiday
\* on the calendar of one tracked index.
HolidayTables ==
  {NoHolidays} \cup
  {[NoHolidays EXCEPT ![indices[k].holidayCalendar] = {0}] : k \in 1..Len(indices)}

\* holidayCalendar.isHoliday(yesterday.toDate())
isHoliday(calendar, day) == day \in holidays[calendar]

NoError == [type |-> "none", attempt |-> 0]

\* A run slot: the program, the await the run is suspended at (pc), and the
\* locals that are live across that await.  When the run function returns,
\* its locals are gone: what stays is the error its catch block logged and
\* the array it returned.
IdleRun ==
  [prog |-> "", pc |-> "idle", i |-> 0, res |-> 0,
   yesterday |-> -1, idx |-> 0, err |-> NoError, testModeRecords |-> <<>>]

Finished(run) == run.pc \in {"done", "aborted"}

InProgress(run) == run.pc # "idle" /\ ~Finished(run)

Free(r) == ~InProgress(runs[r])

\* A new run of the server takes the lowest slot that holds no run in
\* progress.
CanStart(r) == Free(r) /\ \A q \in Slots : q < r => ~Free(q)

\* A run of save_entry.js, a process of its own, takes the lowest such slot
\* after the first.
CanStartScript(r) == r > 1 /\ Free(r) /\ \A q \in Slots : (1 < q /\ q < r) => ~Free(q)

\* ------------------------------------------------------------ Orchestrator

\* const entry = findEntry(apiData, label), for every body and tracked index.
entry ==
  [p \in PayloadIds |->
     [k \in 1..Len(indices) |-> findEntry(Payloads[p].data, indices[k].label)]]

\* const raw = entry.prev_close, where an entry was found.
raw ==
  [p \in PayloadIds |->
     [k \in 1..Len(indices) |->
        IF entry[p][k].kind = "entry"
          THEN Payloads[p].data[entry[p][k].pos].prev_close
          ELSE Undefined]]

\* const parsed = parseFloat(raw.replace(/[^0-9.]/g, '')), where raw is a
\* string.
parsed ==
  [p \in PayloadIds |->
     [k \in 1..Len(indices) |->
        IF IsString(raw[p][k]) THEN parseClose(raw[p][k]) ELSE NaN]]

\* const closeVal = parsed, of the index the run is at.
closeVal(run) == parsed[run.res][run.idx]

\* The run function returns: its locals go out of scope.
Returned(run, pc, error) ==
  [IdleRun EXCEPT !.prog = run.prog, !.pc = pc,
                  !.err = error,
                  !.testModeRecords = IF pc = "done" THEN run.testModeRecords
                                                     ELSE <<>>]

\* An exception reaches the catch block of the run (index.js:235-238,
\* save_entry.js:260-271), which logs it and ends the run.
Caught(run, error) == Returned(run, "aborted", error)

\* The loop over the indices has ended (index.js:224-234,
\* save_entry.js:248-271).
LoopEnded(run) == Returned(run, "done", NoError)

\* generateMockObjectId(): 24 hexadecimal digits made of the clock and of
\* Math.random(); the model keeps only that an identifier was generated.
generateMockObjectId == "mock-oid"

\* A would-be document dated the day of the run instead of the day before.
mockRecord_Today(run, k) ==
  [oid |-> generateMockObjectId, index |-> indices[k].key,
   date |-> run.yesterday + 1, close |-> parsed[run.res][k]]

\* The would-be document of test mode (index.js:211-220).
mockRecord(run, k) ==
  [oid |-> generateMockObjectId, index |-> indices[k].key,
   date |-> run.yesterday, close |-> parsed[run.res][k]]

\* What one iteration of the loop does with index k before any await:
\* "threw", "notfound", "holiday", "unparsed", or "value" when a close
\* value was parsed (index.js:166-187).
Resolved(run, k) ==
  IF entry[run.res][k].kind = "throw" THEN "threw"
  ELSE IF entry[run.res][k].kind = "null" THEN "notfound"
  ELSE IF run.prog # Part003
          /\ isHoliday(indices[k].holidayCalendar, run.yesterday)
    THEN "holiday"
  ELSE IF ~IsString(raw[run.res][k]) THEN "threw"
  ELSE IF isNaN(parsed[run.res][k]) THEN "unparsed"
  ELSE "value"

\* for (const { key, label, holidayCalendar } of indices): the iterations
\* from index k on, up to the next await (the findOne of a normal run), the
\* end of the loop or an exception.
RECURSIVE Loop(_, _)
Loop(run, k) ==
  IF k > Len(indices)
    THEN LoopEnded(run)
    ELSE
      LET at == [run EXCEPT !.idx = k]
          outcome == Resolved(run, k)
      IN IF outcome = "threw"
           THEN Caught(at, [type |-> "TypeError", attempt |-> 0])
         ELSE IF outcome # "value"
           THEN Loop(at, k + 1)
         ELSE IF isTestMode /\ run.prog # SaveEntryJs
           THEN Loop([at EXCEPT !.testModeRecords = Append(@, mockRecord(at, k))],
                     k + 1)
         ELSE [at EXCEPT !.pc = "read"]

\* The retry test one attempt short.
LastAttempt_OffByOne(i) == i = attempts - 1

\* fetchWithRetry, catch branch: if (i === attempts) throw err
LastAttempt(i) == i = attempts

\* A retry loop that makes the next attempt at once.
AfterReject_NoDelay(run) ==
  IF LastAttempt(run.i)
    THEN Caught(run, [type |-> "http", attempt |-> run.i])
    ELSE [run EXCEPT !.i = @ + 1]

\* A retry loop without a last attempt: the counter starts over.
AfterReject_NeverGivesUp(run) == [run EXCEPT !.pc = "delay", !.i = 1]

\* fetchWithRetry: what a rejected attempt i leads to.
AfterReject(run) ==
  IF LastAttempt(run.i)
    THEN Caught(run, [type |-> "http", attempt |-> run.i])
    ELSE [run EXCEPT !.pc = "delay"]

\* A body of the wrong shape handled like a failed attempt.
AfterFetch_RetriesBadShape(run, p, day) ==
  IF ~ValidShape(Payloads[p])
    THEN AfterReject(run)
    ELSE Loop([run EXCEPT !.res = p, !.i = 0, !.yesterday = day - 1], 1)

\* index.js:141-158: fetchWithRetry has returned res; the shape check, the
\* previous day in IST, then the loop up to its first await.
AfterFetch(run, p, day) ==
  LET got == [run EXCEPT !.res = p, !.i = 0]
  IN IF ~ValidShape(Payloads[p])
       THEN Caught(got, [type |-> "shape", attempt |-> run.i])
       ELSE Loop([got EXCEPT !.yesterday = day - 1], 1)

\* The run makes its first HTTP attempt (fetchWithRetry, i = 1).
FirstAttempt(run) == [run EXCEPT !.pc = "fetch", !.i = 1]

NewRun(prog) == [IdleRun EXCEPT !.prog = prog]

\* A read after which the index is skipped whatever it returned.
AfterRead_AlwaysSkips(run, last) == Loop(run, run.idx + 1)

\* What the resolved findOne leads to: the index is skipped as unchanged and
\* the loop goes on, or the write is issued.
AfterRead(run, last) ==
  IF SkipsWrite(run.prog, last, run.yesterday, closeVal(run))
    THEN Loop(run, run.idx + 1)
    ELSE [run EXCEPT !.pc = "write"]

\* A write dated by the day on which it is made.
Written_DatedAtWrite(run, docs) ==
  IF run.prog = SaveEntryJs
    THEN save(docs, indices[run.idx].key, today - 1, closeVal(run))
    ELSE updateOne(docs, indices[run.idx].key, today - 1, closeVal(run))

\* The collections a run's write can leave.
Written(run, docs) ==
  IF run.prog = SaveEntryJs
    THEN save(docs, indices[run.idx].key, run.yesterday, closeVal(run))
    ELSE updateOne(docs, indices[run.idx].key, run.yesterday, closeVal(run))

\* The loop taken up again at the index just written.
AfterWrite_SameIndex(run) == Loop(run, run.idx)

\* A new fetch after every write.
AfterWrite_Refetches(run) == [run EXCEPT !.pc = "fetch", !.i = 1]

\* After the write resolved the loop goes on with the next index.
AfterWrite(run) == Loop(run, run.idx + 1)

\* After the write rejected: save_entry.js catches it and continues with the
\* next index (save_entry.js:221-224), index.js lets it reach the catch
\* block of the run.
AfterWriteError(run) ==
  IF run.prog = SaveEntryJs
    THEN Loop(run, run.idx + 1)
    ELSE Caught(run, [type |-> "store", attempt |-> 0])

\* reconcile(indexKey, tradingDate, closeValue) of one program, with nothing
\* else touching the collection between its read and its write
\* (index.js:191-208, part_003:180-192, save_entry.js:193-224): every
\* [docs, outcome] the call can end with.
reconcile(prog, docs, key, date, close) ==
  UNION {
    IF SkipsWrite(prog, last, date, close)
      THEN {[docs |-> docs, outcome |-> "skipped"]}
      ELSE {[docs |-> d, outcome |-> "written"] :
              d \in IF prog = SaveEntryJs
                      THEN save(docs, key, date, close)
                      ELSE updateOne(docs, key, date, close)}
    : last \in findOneLatest(docs, key)}

\* No call made on its own.
NoCall ==
  [op |-> "none", data |-> <<>>, label |-> <<>>, raw |-> <<>>, now |-> 0,
   done |-> FALSE, entry |-> NullEntry, close |-> NaN, date |-> 0,
   lookup |-> 0]

\* ----------------------------------------------------------------- startup

\* process.env after require('dotenv').config(): which of the two required
\* variables hold a non-empty value.
Envs == [MONGODB_URI : BOOLEAN, API_URL : BOOLEAN]

FullEnv == [MONGODB_URI |-> TRUE, API_URL |-> TRUE]

\* if (!process.env.MONGODB_URI) ... if (!process.env.API_URL) ...
EnvMissing(e) == ~e.MONGODB_URI \/ ~e.API_URL

\* Before the top-level code has run: nothing is set up.
NotBooted ==
  [server |-> "starting", connected |-> FALSE, shown |-> FALSE,
   scheduled |-> FALSE, listening |-> FALSE, script |-> "none"]

\* The top-level code with the check of the environment after the set-up.
Startup_ChecksLast(e, testMode) ==
  LET up == [NotBooted EXCEPT !.connected = ~testMode, !.shown = ~testMode,
                              !.scheduled = ~testMode, !.listening = ~testMode]
  IN [up EXCEPT !.server = IF EnvMissing(e) THEN "exit1" ELSE "up"]

\* The top-level code of index.js, in its order: the check of the
\* environment with process.exit(1) (36-44), then mongoose.connect (61-72),
\* showCurrentIndicesData(), cron.schedule, the routes and app.listen
\* (268-315); in test mode none of these (316-322).
Startup(e, testMode) ==
  IF EnvMissing(e)
    THEN [NotBooted EXCEPT !.server = "exit1"]
  ELSE IF testMode
    THEN [NotBooted EXCEPT !.server = "up"]
  ELSE [NotBooted EXCEPT !.server = "up", !.connected = TRUE, !.shown = TRUE,
                         !.scheduled = TRUE, !.listening = TRUE]

\* A run function whose catch block rethrows.
promiseOf_RejectsOnAbort(run) ==
  IF run.pc = "aborted" THEN "rejected"
  ELSE IF run.pc = "done" THEN "fulfilled"
  ELSE "pending"

\* The promise fetchAndStoreIndicesData() returned for a run: pending while
\* the run is in progress, fulfilled when the function returns, be it with
\* the report (index.js:234) or with [] from its catch block
\* (index.js:235-238).  No path rejects it.
promiseOf(run) == IF Finished(run) THEN "fulfilled" ELSE "pending"

\* What a step of a run leaves of the server process.  A rejected promise
\* of a run is caught by the handler of /trigger, which awaits it
\* (index.js:307-312); that of a run the timer started is awaited by nobody
\* and reaches process.on('unhandledRejection'), which calls
\* process.exit(1) (index.js:79-82).  The model does not keep who started a
\* run, so both are outcomes.
AfterRun(b, run) ==
  IF run.prog # SaveEntryJs /\ promiseOf(run) = "rejected"
    THEN {b, [b EXCEPT !.server = "exit1", !.connected = FALSE,
                       !.scheduled = FALSE, !.listening = FALSE]}
    ELSE {b}

\* The process a run belongs to is running: the server, or the script
\* save_entry.js, which lives as long as its run.
Alive(run) == run.prog = SaveEntryJs \/ boot.server = "up"

\* ------------------------------------------------------------ read endpoints

\* The order of the index keys as strings, which sort({ index: 1 }) uses.
KeysInOrder ==
  <<"cac", "dax", "dow", "ftse", "gift-nifty", "hang", "kospi", "nasdaq",
    "nikkei", "sandp">>

KeyRank(key) == CHOOSE n \in 1..Len(KeysInOrder) : KeysInOrder[n] = key

\* Every arrangement of the documents of a collection in a list.
Listings(docs) ==
  LET n == BagCardinality(docs)
  IN {s \in [1..n -> BagToSet(docs)] :
        \A x \in BagToSet(docs) :
          Cardinality({j \in 1..n : s[j] = x}) = CopiesIn(x, docs)}

\* CloseModel.find().sort({ date: -1, index: 1 }).lean(): the lists the
\* query can resolve with.
findAll(docs) ==
  {s \in Listings(docs) :
     \A j \in 1..(Len(s) - 1) :
       \/ s[j].date > s[j + 1].date
       \/ /\ s[j].date = s[j + 1].date
          /\ KeyRank(s[j].index) <= KeyRank(s[j + 1].index)}

\* CloseModel.find({ index: req.params.index }).sort({ date: -1 }).lean()
findByIndex(docs, key) ==
  LET hit == {x \in BagToSet(docs) : x.index = key}
      mine == [x \in hit |-> docs[x]]
  IN {s \in Listings(mine) :
        \A j \in 1..(Len(s) - 1) : s[j].date >= s[j + 1].date}

\* The values of the path parameter of GET /closes/:index: the tracked keys
\* and a key no index has.
PathKeys == {indices[k].key : k \in 1..Len(indices)} \cup {"none"}

\* ---------------------------------------------------------------- actions

Init ==
  /\ store = EmptyBag
  /\ runs = [r \in Slots |-> IdleRun]
  /\ today = 1
  /\ isTestMode \in BOOLEAN
  /\ env \in Envs
  /\ boot = Startup(env, isTestMode)
  /\ cronDue = boot.scheduled
  /\ revision \in {IndexJs, Part003}
  /\ holidays \in HolidayTables
  /\ call = NoCall

\* cron.schedule('0 2 * * *', fetchAndStoreIndicesData, { timezone })
CronFire(r) ==
  /\ boot.scheduled
  /\ cronDue
  /\ CanStart(r)
  /\ runs' = [runs EXCEPT ![r] = FirstAttempt(NewRun(revision))]
  /\ cronDue' = FALSE
  /\ UNCHANGED <<store, today, revision, isTestMode, holidays, env, boot>>
  /\ call' = NoCall

\* app.get('/trigger', ...): await fetchAndStoreIndicesData()
Trigger(r) ==
  /\ boot.listening
  /\ CanStart(r)
  /\ runs' = [runs EXCEPT ![r] = FirstAttempt(NewRun(revision))]
  /\ UNCHANGED <<store, today, cronDue, revision, isTestMode, holidays, env, boot>>
  /\ call' = NoCall

\* node index.js --test: the run made once at startup.
TestRun(r) ==
  /\ isTestMode
  /\ boot.server = "up"
  /\ runs[r].pc = "idle"
  /\ CanStart(r)
  /\ runs' = [runs EXCEPT ![r] = FirstAttempt(NewRun(revision))]
  /\ UNCHANGED <<store, today, cronDue, revision, isTestMode, holidays, env, boot>>
  /\ call' = NoCall

\* node save_entry.js: saveEntry() up to its fetch.  The countDocuments
\* calls, the read-back of the saved document and the closing of the
\* connection read or log only, and their failures are caught in place
\* (save_entry.js:135-140, 227-247, 251-270): they are no steps of the model.
SaveEntryStart(r) ==
  /\ ~EnvMissing(env)
  /\ CanStartScript(r)
  /\ runs' = [runs EXCEPT ![r] = FirstAttempt(NewRun(SaveEntryJs))]
  /\ UNCHANGED <<store, today, cronDue, revision, isTestMode, holidays, env, boot>>
  /\ call' = NoCall

\* axios.get resolves with body p.
FetchResolve(r, p) ==
  /\ runs[r].pc = "fetch"
  /\ Alive(runs[r])
  /\ runs' = [runs EXCEPT ![r] = AfterFetch(@, p, today)]
  /\ UNCHANGED <<store, today, cronDue, revision, isTestMode, holidays, env>>
  /\ boot' \in AfterRun(boot, runs'[r])
  /\ call' = NoCall

\* axios.get rejects: rethrown on the last attempt, else the delay starts.
FetchReject(r) ==
  /\ runs[r].pc = "fetch"
  /\ Alive(runs[r])
  /\ runs' = [runs EXCEPT ![r] = AfterReject(@)]
  /\ UNCHANGED <<store, today, cronDue, revision, isTestMode, holidays, env>>
  /\ boot' \in AfterRun(boot, runs'[r])
  /\ call' = NoCall

\* setTimeout(r, delayMs) fires: the next iteration calls axios.get again.
DelayElapsed(r) ==
  /\ runs[r].pc = "delay"
  /\ Alive(runs[r])
  /\ runs' = [runs EXCEPT ![r] = [@ EXCEPT !.pc = "fetch", !.i = @ + 1]]
  /\ UNCHANGED <<store, today, cronDue, revision, isTestMode, holidays, env>>
  /\ boot' \in AfterRun(boot, runs'[r])
  /\ call' = NoCall

\* findOne resolves with last: the run skips the index or issues its write.
ReadResolve(r) ==
  /\ runs[r].pc = "read"
  /\ Alive(runs[r])
  /\ \E last \in findOneLatest(store, indices[runs[r].idx].key) :
       runs' = [runs EXCEPT ![r] = AfterRead(@, last)]
  /\ UNCHANGED <<store, today, cronDue, revision, isTestMode, holidays, env>>
  /\ boot' \in AfterRun(boot, runs'[r])
  /\ call' = NoCall

\* findOne rejects: nothing catches it before the catch block of the run.
ReadReject(r) ==
  /\ runs[r].pc = "read"
  /\ Alive(runs[r])
  /\ runs' = [runs EXCEPT ![r] = Caught(@, [type |-> "store", attempt |-> 0])]
  /\ UNCHANGED <<store, today, cronDue, revision, isTestMode, holidays, env>>
  /\ boot' \in AfterRun(boot, runs'[r])
  /\ call' = NoCall

\* updateOne / save resolves.
WriteResolve(r) ==
  /\ runs[r].pc = "write"
  /\ Alive(runs[r])
  /\ \E docs \in Written(runs[r], store) :
       /\ BagCardinality(docs) <= MaxStore
       /\ store' = docs
  /\ runs' = [runs EXCEPT ![r] = AfterWrite(@)]
  /\ UNCHANGED <<today, cronDue, revision, isTestMode, holidays, env>>
  /\ boot' \in AfterRun(boot, runs'[r])
  /\ call' = NoCall

\* updateOne / save rejects.
WriteReject(r) ==
  /\ runs[r].pc = "write"
  /\ Alive(runs[r])
  /\ runs' = [runs EXCEPT ![r] = AfterWriteError(@)]
  /\ UNCHANGED <<store, today, cronDue, revision, isTestMode, holidays, env>>
  /\ boot' \in AfterRun(boot, runs'[r])
  /\ call' = NoCall

\* Midnight in Asia/Kolkata; the 02:00 job of the new day becomes due.
Tick ==
  /\ today < MaxDay
  /\ ~cronDue
  /\ today' = today + 1
  /\ cronDue' = boot.scheduled
  /\ UNCHANGED <<store, runs, revision, isTestMode, holidays, env, boot>>
  /\ call' = NoCall

\* node save_entry.js with a required variable missing: process.exit(1)
\* before mongoose.connect and before saveEntry() (save_entry.js:28-36).
SaveEntryExit ==
  /\ EnvMissing(env)
  /\ boot.script = "none"
  /\ boot' = [boot EXCEPT !.script = "exit1"]
  /\ call' = NoCall
  /\ UNCHANGED <<store, runs, today, cronDue, revision, isTestMode, holidays, env>>

\* The requests of the read endpoints the model makes: of the listening
\* server, while every run so far has completed.
Serving == boot.listening /\ \A r \in Slots : runs[r].pc \in {"idle", "done"}

\* GET /closes: res.json(docs)
GetCloses ==
  /\ Serving
  /\ \E docs \in findAll(store) :
       call' = [NoCall EXCEPT !.op = "closes", !.done = TRUE, !.data = docs]
  /\ UNCHANGED <<store, runs, today, cronDue, revision, isTestMode, holidays, env, boot>>

\* GET /closes/:index: res.json(docs)
GetClosesIndex(key) ==
  /\ Serving
  /\ \E docs \in findByIndex(store, key) :
       call' = [NoCall EXCEPT !.op = "closesOf", !.done = TRUE,
                             !.label = <<key>>, !.data = docs]
  /\ UNCHANGED <<store, runs, today, cronDue, revision, isTestMode, holidays, env, boot>>

Next ==
  \/ \E r \in Slots : CronFire(r)
  \/ \E r \in Slots : Trigger(r)
  \/ \E r \in Slots : TestRun(r)
  \/ \E r \in Slots : SaveEntryStart(r)
  \/ \E r \in Slots, p \in PayloadIds : FetchResolve(r, p)
  \/ \E r \in Slots : FetchReject(r)
  \/ \E r \in Slots : DelayElapsed(r)
  \/ \E r \in Slots : ReadResolve(r)
  \/ \E r \in Slots : ReadReject(r)
  \/ \E r \in Slots : WriteResolve(r)
  \/ \E r \in Slots : WriteReject(r)
  \/ Tick
  \/ SaveEntryExit
  \/ GetCloses
  \/ \E key \in PathKeys : GetClosesIndex(key)

Spec == Init /\ [][Next]_vars

\* ------------------------------------------- Trading-Day Resolver (dates)

\* An instant is a number of half hours since 1970-01-01T00:00Z, a civil
\* date the number of a day since 1970-01-01.
HalfHoursPerDay == 48

\* Asia/Kolkata is UTC+05:30 all year.
IstOffset == 11

\* The wall clock of UTC instead of that of the zone.
tz_Utc(now) == now

\* moment().tz('Asia/Kolkata'): the wall clock of the zone at an instant.
tz(now) == now + IstOffset

\* .subtract(1, 'day').startOf('day'), on the wall clock of the zone.
yesterdayOf(local) ==
  (local - HalfHoursPerDay) - ((local - HalfHoursPerDay) % HalfHoursPerDay)

\* .format('YYYY-MM-DD'): the civil date of a wall clock value.
format(local) == local \div HalfHoursPerDay

\* `${yesterday.format('YYYY-MM-DD')}T00:00:00.000Z`
prevISODate(now) == [date |-> format(yesterdayOf(tz(now))), time |-> 0]

\* new Date(prevISODate): the instant an ISO string with zone Z denotes.
NewDate(iso) == iso.date * HalfHoursPerDay + iso.time

\* const dateForStorage = new Date(prevISODate)
dateForStorage(now) == NewDate(prevISODate(now))

\* yesterday.toDate(): the instant of a wall clock value of Asia/Kolkata.
toDate(local) == local - IstOffset

\* The zone in which date-holidays keeps the days of each calendar, as its
\* offset from UTC in half hours (standard time): Asia/Kolkata,
\* America/New_York, Asia/Tokyo, Europe/London, Asia/Hong_Kong,
\* Europe/Berlin, Europe/Paris, Asia/Seoul.
ZoneOffset ==
  [c \in Calendars |->
     CASE c = "IN" -> 11
       [] c = "US" -> -10
       [] c = "JP" -> 18
       [] c = "GB" -> 0
       [] c = "HK" -> 16
       [] c = "DE" -> 2
       [] c = "FR" -> 2
       [] c = "KR" -> 18]

\* holidayCalendar.isHoliday(date) with a Date: a holiday lasts from 00:00 to
\* 24:00 on the wall clock of the calendar's zone, and the instant is looked
\* up among these spans.  The civil date whose span holds the instant.
lookupDate(calendar, instant) ==
  (instant + ZoneOffset[calendar]) \div HalfHoursPerDay

\* ------------------------------------------------- calls made on their own

\* Names an upstream entry can carry.
Names ==
  { <<"S", "&", "P", " ", "5", "0", "0">>,
    <<"U", "S", " ", "S", "&", "P">>,
    <<"s", "&", "p", " ", "m", "i", "n", "i">>,
    <<"D", "o", "w", " ", "J", "o", "n", "e", "s">>,
    <<"D", "O", "W", " ", "3", "0">>,
    <<"T", "h", "e", " ", "D", "o", "w">> }

\* The configured labels the calls are made with, and letter-case variants
\* of them.
ConfiguredLabels == {AllIndices[2].label, AllIndices[4].label}

Labels == ConfiguredLabels \cup {DOW, dow, <<"s", "&", "p">>}

\* The payloads of up to MaxEntries entries.
DataSets ==
  UNION {[1..n -> {[name |-> x, prev_close |-> <<"1">>] : x \in Names}] :
           n \in 0..MaxEntries}

\* The prev_close strings of up to MaxRaw characters.
RawChars == {"1", "2", ".", ",", "$"}

RawStrings == UNION {[1..n -> RawChars] : n \in 0..MaxRaw}

\* The instants of MaxInstantDays days.
Instants == 0..(MaxInstantDays * HalfHoursPerDay - 1)

Calls ==
  {[NoCall EXCEPT !.op = "findEntry", !.data = d, !.label = l] :
     d \in DataSets, l \in Labels}
  \cup {[NoCall EXCEPT !.op = "parseClose", !.raw = x] : x \in RawStrings}
  \cup {[NoCall EXCEPT !.op = "date", !.now = t] : t \in Instants}
  \cup {[NoCall EXCEPT !.op = "holiday", !.now = t, !.label = <<c>>] :
          t \in Instants, c \in Calendars}

CallInit ==
  /\ store = EmptyBag
  /\ runs = [r \in Slots |-> IdleRun]
  /\ today = 1
  /\ isTestMode = FALSE
  /\ cronDue = FALSE
  /\ revision = IndexJs
  /\ holidays = NoHolidays
  /\ env = FullEnv
  /\ boot = Startup(env, isTestMode)
  /\ call \in Calls

\* const entry = findEntry(apiData, label)
FindEntryCall ==
  /\ call.op = "findEntry"
  /\ ~call.done
  /\ call' = [call EXCEPT !.done = TRUE,
                          !.entry = findEntry(call.data, call.label)]
  /\ UNCHANGED <<store, runs, today, cronDue, revision, isTestMode, holidays, env, boot>>

\* const parsed = parseFloat(raw.replace(/[^0-9.]/g, ''))
ParseCall ==
  /\ call.op = "parseClose"
  /\ ~call.done
  /\ call' = [call EXCEPT !.done = TRUE, !.close = parseClose(call.raw)]
  /\ UNCHANGED <<store, runs, today, cronDue, revision, isTestMode, holidays, env, boot>>

\* now, yesterday, prevISODate, dateForStorage
DateCall ==
  /\ call.op = "date"
  /\ ~call.done
  /\ call' = [call EXCEPT !.done = TRUE, !.date = dateForStorage(call.now)]
  /\ UNCHANGED <<store, runs, today, cronDue, revision, isTestMode, holidays, env, boot>>

\* The holiday check of a run at instant now for an index of the calendar:
\* the civil date isHoliday(yesterday.toDate()) looks up, and the trading
\* date prevISODate carries.
HolidayCall ==
  /\ call.op = "holiday"
  /\ ~call.done
  /\ call' = [call EXCEPT
                !.done = TRUE,
                !.lookup = lookupDate(call.label[1],
                                      toDate(yesterdayOf(tz(call.now)))),
                !.date = prevISODate(call.now).date]
  /\ UNCHANGED <<store, runs, today, cronDue, revision, isTestMode, holidays, env, boot>>

CallNext == FindEntryCall \/ ParseCall \/ DateCall \/ HolidayCall

CallSpec == CallInit /\ [][CallNext]_vars

\* ------------------------------------------------------------ vocabulary

TrackedKeys == {indices[k].key : k \in 1..Len(indices)}

\* The key, date and close a run suspended at its read or write reconciles.
KeyOf(run) == indices[run.idx].key

AtStore(run) == run.pc \in {"read", "write"}

\* The write of run r resolved in this step.
WriteDone(r) == WriteResolve(r)

\* The read of run r resolved in this step and the index was skipped.
SkipDone(r) == ReadResolve(r) /\ runs'[r].pc # "write"

\* The read of run r resolved in this step and the write was issued.
WriteIssued(r) == ReadResolve(r) /\ runs'[r].pc = "write"

\* ---------------------------------------------------------------- claims

\* C1: after any sequence of runs of index.js and save_entry.js against the
\* same store, the store holds at most one record for every
\* (indexKey, tradingDate) pair.
C1_AtMostOneRecordPerKey ==
  \A key \in TrackedKeys, date \in Days : CountKey(store, key, date) <= 1

\* Every pair <<first, second>> of results of two invocations of reconcile in
\* succession, with the same arguments, on the store as it is.
Twice(prog, key, date, close) ==
  UNION {{<<a, b>> : b \in reconcile(prog, a.docs, key, date, close)} :
           a \in reconcile(prog, store, key, date, close)}

\* The runs of index.js and part_003 that are about to reconcile an index.
Reconciling == {r \in Slots : runs[r].pc = "read" /\ runs[r].prog # SaveEntryJs}

\* The index has no record dated after the date and no two records on its
\* latest date.
Settled(key, date) ==
  \A last \in findOneLatest(store, key) :
    last # Null => (last.date <= date /\ CountKey(store, key, last.date) = 1)

\* C2, as claimed: for every store state and every (indexKey, tradingDate,
\* closeValue), reconcile invoked twice in succession leaves exactly one
\* record for (indexKey, tradingDate), and the second invocation is skipped
\* and writes nothing.
C2_TwiceLeavesOneRecord ==
  \A r \in Reconciling :
    \A t \in Twice(runs[r].prog, KeyOf(runs[r]), runs[r].yesterday, closeVal(runs[r])) :
      /\ CountKey(t[2].docs, KeyOf(runs[r]), runs[r].yesterday) = 1
      /\ t[2].outcome = "skipped"
      /\ t[2].docs = t[1].docs

\* C2, amended: two invocations of reconcile in succession with the same
\* arguments add at most one record in all; and when the index has no record
\* dated after tradingDate and no two records on its latest date, the second
\* invocation is skipped and at most one record exists for
\* (indexKey, tradingDate), exactly one under the date-and-value rule of
\* index.js.
C2_TwiceAddsAtMostOne ==
  \A r \in Reconciling :
    LET key  == KeyOf(runs[r])
        date == runs[r].yesterday
    IN \A t \in Twice(runs[r].prog, key, date, closeVal(runs[r])) :
         /\ BagCardinality(t[2].docs) <= BagCardinality(store) + 1
         /\ CountKey(t[2].docs, key, date) <= CountKey(store, key, date) + 1
         /\ Settled(key, date)
              => /\ t[2].outcome = "skipped"
                 /\ t[2].docs = t[1].docs
                 /\ CountKey(t[2].docs, key, date) <= 1
                 /\ runs[r].prog = IndexJs => CountKey(t[2].docs, key, date) = 1

\* C2 witness: a run of part_003 is about to reconcile an index that has one
\* record, of an earlier date and the same close: both invocations are
\* skipped and no record exists for (indexKey, tradingDate).
C2_Witness ==
  \E r \in Reconciling :
    LET key  == KeyOf(runs[r])
        date == runs[r].yesterday
    IN /\ runs[r].prog = Part003
       /\ Settled(key, date)
       /\ CountKey(store, key, date) = 0
       /\ \A t \in Twice(Part003, key, date, closeVal(runs[r])) :
            t[1].outcome = "skipped" /\ t[2].outcome = "skipped"

C4_AtMostOneRunInProgress ==
  Cardinality({r \in Slots : InProgress(runs[r]) /\ runs[r].prog # SaveEntryJs}) <= 1

\* C5: when two reconciliations of the same indexKey and tradingDate overlap
\* in time, the write of either leaves exactly one record for that
\* (indexKey, tradingDate), and it holds the value just written.
C5_OverlapLeavesOneRecord ==
  [][\A r \in Slots :
       (/\ WriteDone(r)
        /\ \E q \in Slots \ {r} :
             /\ AtStore(runs[q])
             /\ KeyOf(runs[q]) = KeyOf(runs[r])
             /\ runs[q].yesterday = runs[r].yesterday)
       => /\ CountKey(store', KeyOf(runs[r]), runs[r].yesterday) = 1
          /\ DocsOfKey(store', KeyOf(runs[r]), runs[r].yesterday) =
               {Doc(KeyOf(runs[r]), runs[r].yesterday, closeVal(runs[r]))}]_vars

\* C6: fetchWithRetry makes attempt k+1 only after attempt k failed, makes at
\* most `attempts` attempts, returns at the first attempt that succeeds, and
\* when all attempts failed raises the error of the last one.
C6_RetryBudget ==
  /\ [](\A r \in Slots :
          /\ runs[r].pc = "fetch" => runs[r].i \in 1..attempts
          /\ runs[r].pc = "delay" => runs[r].i \in 1..(attempts - 1)
          /\ runs[r].err.type = "http" => runs[r].err.attempt = attempts)
  /\ [][\A r \in Slots :
          \* a further attempt is made only by the delay that follows a failure
          /\ (runs'[r].pc = "fetch" /\ runs'[r].i > 1 /\ runs'[r] # runs[r])
               => (runs[r].pc = "delay" /\ runs'[r].i = runs[r].i + 1)
          /\ (runs'[r].pc = "delay" /\ runs'[r] # runs[r])
               => (FetchReject(r) /\ runs'[r].i = runs[r].i)
          \* the first response ends the retry loop
          /\ (\E p \in PayloadIds : FetchResolve(r, p))
               => runs'[r].pc \notin {"fetch", "delay"} /\ runs'[r].i = 0
          \* the failure of the last attempt is raised, that of an earlier is not
          /\ FetchReject(r)
               => IF runs[r].i = attempts
                    THEN runs'[r].pc = "aborted"
                         /\ runs'[r].err = [type |-> "http", attempt |-> runs[r].i]
                    ELSE runs'[r].pc = "delay" /\ runs'[r].err = NoError]_vars

\* C6 witness: a run whose three attempts all failed has ended with the error
\* of the third.
C6_Witness ==
  \E r \in Slots :
    runs[r].pc = "aborted" /\ runs[r].err = [type |-> "http", attempt |-> 3]

\* C7: a response without a true success flag, or whose data is no array,
\* ends the run at once: no further HTTP attempt is made, whatever is left
\* of the retry budget.
C7_ShapeErrorIsFatal ==
  [][\A r \in Slots, p \in PayloadIds :
       (~(Payloads[p].success /\ Payloads[p].isArray) /\ FetchResolve(r, p))
         => /\ runs'[r].pc = "aborted"
            /\ runs'[r].err = [type |-> "shape", attempt |-> runs[r].i]
            /\ runs'[r].i = 0]_vars

\* C7 witness: a run ended on the shape of the response to its first
\* attempt, with two attempts of the budget unused.
C7_Witness ==
  \E r \in Slots :
    runs[r].pc = "aborted" /\ runs[r].err = [type |-> "shape", attempt |-> 1]

\* C8: when the fetch fails on all attempts or the payload shape is invalid,
\* the run ends without having processed any tracked index, and no step of
\* the run up to there changed the store.
C8_FetchFailureLeavesStore ==
  /\ [](\A r \in Slots :
          runs[r].pc \in {"fetch", "delay"}
            => runs[r].idx = 0 /\ runs[r].yesterday = -1 /\ runs[r].res = 0)
  /\ [][\A r \in Slots :
          /\ (runs[r].pc \in {"fetch", "delay"} /\ runs'[r] # runs[r])
               => store' = store
          /\ (\/ FetchReject(r) /\ runs[r].i = attempts
              \/ \E p \in PayloadIds :
                   ~(Payloads[p].success /\ Payloads[p].isArray) /\ FetchResolve(r, p))
               => /\ store' = store
                  /\ runs'[r].pc = "aborted"
                  /\ runs'[r].idx = 0]_vars

\* C8 witness: a run was aborted by its fetch while the store held a record.
C8_Witness ==
  \E r \in Slots :
    /\ runs[r].pc = "aborted"
    /\ runs[r].err.type \in {"http", "shape"}
    /\ store # EmptyBag

\* C9: when the store read or the store write fails for one tracked index,
\* the run goes on with the indices that follow it, and the store is as it
\* was.
C9_StoreErrorIsPerIndex ==
  [][\A r \in Slots :
       (/\ ReadReject(r) \/ WriteReject(r)
        /\ runs[r].idx < Len(indices)
        /\ Resolved(runs[r], runs[r].idx + 1) = "value")
         => /\ runs'[r].pc = "read"
            /\ runs'[r].idx = runs[r].idx + 1
            /\ store' = store]_vars

\* C10: a run is aborted only from its fetching phase (attempts exhausted or
\* invalid payload shape); once the per-index phase has begun no failure
\* ends the run before every tracked index has been visited.
C10_AbortOnlyWhileFetching ==
  [][\A r \in Slots :
       (runs'[r].pc = "aborted" /\ runs[r].pc # "aborted")
         => /\ runs[r].pc = "fetch"
            /\ runs'[r].err.type \in {"http", "shape"}]_vars

\* For every body and tracked index: the index has no entry in the body, or
\* its prev_close string parses to no number.
softFailure ==
  [p \in PayloadIds |->
     [k \in 1..Len(indices) |->
        \/ entry[p][k].kind = "null"
        \/ /\ entry[p][k].kind = "entry"
           /\ IsString(raw[p][k])
           /\ parsed[p][k] = NaN]]

\* For every body and tracked index: the index resolves to an entry whose
\* prev_close parses to a number.
hasValue ==
  [p \in PayloadIds |->
     [k \in 1..Len(indices) |->
        /\ entry[p][k].kind = "entry"
        /\ IsString(raw[p][k])
        /\ parsed[p][k] # NaN]]

\* For every body, index from and index k: k has a value and comes after
\* one or more soft failures that follow from.
valueAfterSoftFailures ==
  [p \in PayloadIds |->
     [from \in 0..Len(indices) |->
        [k \in 1..Len(indices) |->
           /\ k > from + 1
           /\ \A j \in (from + 1)..(k - 1) : softFailure[p][j]
           /\ hasValue[p][k]]]]

\* The day is a holiday for index k in program prog.
OnHoliday(prog, k, day) ==
  prog # Part003 /\ day \in holidays[indices[k].holidayCalendar]

\* C11: a run makes no store read and no store write for a tracked index
\* that has no entry in the snapshot or whose prev_close parses to no
\* number, and it still processes the index that follows: the step that
\* passes over such indices leaves the store alone and suspends the run at
\* the read of the first index after them that has a value.
C11_SoftFailureSkipsIndexOnly ==
  /\ [](\A r \in Slots :
          AtStore(runs[r]) => ~softFailure[runs[r].res][runs[r].idx])
  /\ [][\A r \in Slots, k \in 2..Len(indices) :
          /\ \A p \in PayloadIds :
               (/\ runs[r].pc = "fetch"
                /\ ~isTestMode
                /\ Payloads[p].success /\ Payloads[p].isArray
                /\ valueAfterSoftFailures[p][0][k]
                /\ ~OnHoliday(runs[r].prog, k, today - 1)
                /\ FetchResolve(r, p))
                 => /\ runs'[r].pc = "read"
                    /\ runs'[r].idx = k
                    /\ store' = store
          /\ (/\ AtStore(runs[r])
              /\ valueAfterSoftFailures[runs[r].res][runs[r].idx][k]
              /\ ~OnHoliday(runs[r].prog, k, runs[r].yesterday)
              /\ WriteDone(r) \/ SkipDone(r))
               => /\ runs'[r].pc = "read"
                  /\ runs'[r].idx = k]_vars

\* C11 witness: a run is at the read of the second index after the first
\* one had an entry whose prev_close parsed to no number.
C11_Witness ==
  \E r \in Slots :
    /\ runs[r].pc = "read"
    /\ runs[r].idx = 2
    /\ entry[runs[r].res][1].kind = "entry"
    /\ parsed[runs[r].res][1] = NaN

\* C12: in a single normal run where the previous trading date is a holiday
\* on the calendar of index X but not on that of index Y, and both resolve
\* to an entry and parse, the run writes no record for X on that date, and
\* when it is through with Y the store holds a record for Y on that date.
C12_HolidaySkipIsPerIndex ==
  [][\A r \in Slots :
       (AtStore(runs[r]) /\ runs[r].prog # SaveEntryJs)
         => \A X, Y \in 1..Len(indices) :
              (/\ runs[r].yesterday \in holidays[indices[X].holidayCalendar]
               /\ runs[r].yesterday \notin holidays[indices[Y].holidayCalendar]
               /\ hasValue[runs[r].res][X]
               /\ hasValue[runs[r].res][Y])
                => /\ WriteDone(r) => runs[r].idx # X
                   /\ (runs[r].idx = Y /\ (WriteDone(r) \/ SkipDone(r)))
                        => CountKey(store', indices[Y].key, runs[r].yesterday) >= 1]_vars

\* C13, as claimed: when a normal run completes, the store holds, for every
\* tracked index that resolved to an entry, was not on holiday and parsed to
\* a value v, a record keyed by (index key, previous trading date) whose
\* close is v.
C13_CompletedRunStoredEveryValue ==
  [][\A r \in Slots :
       (/\ AtStore(runs[r])
        /\ runs[r].prog # SaveEntryJs
        /\ runs'[r].pc = "done")
         => \A k \in 1..Len(indices) :
              (/\ hasValue[runs[r].res][k]
               /\ runs[r].yesterday \notin holidays[indices[k].holidayCalendar])
                => Doc(indices[k].key, runs[r].yesterday, parsed[runs[r].res][k])
                     \in BagToSet(store')]_vars

\* C13, amended: at the moment a normal run is through with a tracked index
\* that parsed to a value v (its write resolved, or it was skipped as
\* unchanged), the store holds a record of the index whose close is v: keyed
\* by (index key, previous trading date) under index.js and after every
\* write; under the value-only check of part_003 a skipped index has v in
\* its most recently dated record, whatever its date.
C13_ReconciledIndexIsStored ==
  [][\A r \in Slots :
       (/\ AtStore(runs[r])
        /\ runs[r].prog # SaveEntryJs
        /\ WriteDone(r) \/ SkipDone(r))
         => IF runs[r].prog = IndexJs \/ WriteDone(r)
              THEN Doc(KeyOf(runs[r]), runs[r].yesterday, closeVal(runs[r]))
                     \in BagToSet(store')
              ELSE \E last \in findOneLatest(store', KeyOf(runs[r])) :
                     last.close = closeVal(runs[r])]_vars

\* C13 witness: a run of part_003 has passed on to the second index after
\* the first one parsed to a value, and the store has the value on an
\* earlier date only.
C13_Witness ==
  \E r \in Slots :
    /\ runs[r].prog = Part003
    /\ runs[r].pc = "read"
    /\ runs[r].idx = 2
    /\ hasValue[runs[r].res][1]
    /\ CountKey(store, indices[1].key, runs[r].yesterday) = 0
    /\ \E d \in Days :
         /\ d < runs[r].yesterday
         /\ Doc(indices[1].key, d, parsed[runs[r].res][1]) \in BagToSet(store)

\* A complete run of program prog over body p with previous day `day`, made
\* alone on collection docs: the indices from k on are reconciled in turn.
\* Every [docs, wrote] the run can end with, wrote telling whether some
\* index was written rather than skipped.
RECURSIVE RunFrom(_, _, _, _, _, _)
RunFrom(prog, docs, p, day, k, wrote) ==
  IF k > Len(indices)
    THEN {[docs |-> docs, wrote |-> wrote]}
    ELSE IF ~hasValue[p][k] \/ OnHoliday(prog, k, day)
      THEN RunFrom(prog, docs, p, day, k + 1, wrote)
      ELSE UNION {RunFrom(prog, o.docs, p, day, k + 1,
                          wrote \/ o.outcome = "written") :
                    o \in reconcile(prog, docs, indices[k].key, day, parsed[p][k])}

\* The bodies with which a run completes: of valid shape, and no index
\* throws.
Completing ==
  {p \in PayloadIds :
     /\ ValidShape(Payloads[p])
     /\ \A k \in 1..Len(indices) :
          entry[p][k].kind # "throw"
          /\ (entry[p][k].kind = "entry" => IsString(raw[p][k]))}

\* No run is in progress in a normal server process.
Quiet == ~isTestMode /\ \A r \in Slots : ~InProgress(runs[r])

\* C14: two complete normal runs made one after the other on the same day
\* with the same snapshot payload: the second run writes nothing, every
\* index being skipped as unchanged, and the store after the second run is
\* the store after the first.
C14_SecondRunIsNoOp ==
  Quiet =>
    \A p \in Completing :
      \A first \in RunFrom(revision, store, p, today - 1, 1, FALSE) :
        \A second \in RunFrom(revision, first.docs, p, today - 1, 1, FALSE) :
          ~second.wrote /\ second.docs = first.docs

\* The name starts with the label, letter case apart.
StartsWithLabel(name, label) == startsWith(toUpperCase(name), toUpperCase(label))

\* The name contains the label, letter case apart.
ContainsLabel(name, label) == includes(toUpperCase(name), toUpperCase(label))

\* The position of the first entry of data whose name passes the test, 0
\* when there is none.
FirstPos(data, Test(_)) ==
  LET hits == {k \in 1..Len(data) : Test(data[k].name)}
  IN IF hits = {} THEN 0 ELSE CHOOSE k \in hits : \A j \in hits : k <= j

\* A call of findEntry has returned.
Resolves == call.op = "findEntry" /\ call.done

\* C15: for every configured label and every payload in which some entry's
\* name starts with the label, findEntry returns the first entry whose name
\* starts with the label, even when an entry that only contains the label
\* comes earlier in the payload.
C15_PrefixBeatsSubstring ==
  (/\ Resolves
   /\ call.label \in ConfiguredLabels
   /\ \E k \in 1..Len(call.data) : StartsWithLabel(call.data[k].name, call.label))
    => call.entry =
         [kind |-> "entry",
          pos |-> FirstPos(call.data, LAMBDA n : StartsWithLabel(n, call.label))]

\* C15 witness: the first entry only contains the label, a later one starts
\* with it, and the later one was returned.
C15_Witness ==
  /\ Resolves
   /\ call.label = AllIndices[4].label
   /\ Len(call.data) >= 2
   /\ ContainsLabel(call.data[1].name, call.label)
   /\ ~StartsWithLabel(call.data[1].name, call.label)
   /\ call.entry.kind = "entry"
   /\ call.entry.pos > 1
   /\ StartsWithLabel(call.data[call.entry.pos].name, call.label)

\* C16: the tiers compare the upper-cased name with the upper-cased label,
\* so findEntry returns the same entry for every letter-case variant of a
\* label: the entry it returns for the label is the one it returns for the
\* upper-cased label.
C16_LabelCaseIsIrrelevant ==
  Resolves => call.entry = findEntry(call.data, toUpperCase(call.label))

\* The name starts with "dow", letter case apart.
StartsWithDow(name) == startsWith(toLowerCase(name), dow)

\* C17: for the Dow label findEntry returns the first entry, in payload
\* order, whose name starts with "dow" letter case apart, whenever there is
\* one, whatever the prefix and substring tiers would return; only when
\* there is none does it return what those tiers return.
C17_DowAliasComesFirst ==
  (Resolves /\ call.label \in {Dow, DOW})
    => LET alias  == FirstPos(call.data, StartsWithDow)
           prefix == FirstPos(call.data,
                       LAMBDA n : startsWith(toUpperCase(n), call.label))
           inner  == FirstPos(call.data,
                       LAMBDA n : includes(toUpperCase(n), call.label))
       IN call.entry =
            IF alias # 0 THEN [kind |-> "entry", pos |-> alias]
            ELSE IF prefix # 0 THEN [kind |-> "entry", pos |-> prefix]
            ELSE IF inner # 0 THEN [kind |-> "entry", pos |-> inner]
            ELSE NullEntry

\* C17 witness: the label "Dow" resolved to an entry that is not the first
\* of the payload, by the alias alone: no upper-cased name contains "Dow".
C17_Witness ==
  /\ Resolves
  /\ call.label = Dow
  /\ call.entry.kind = "entry"
  /\ call.entry.pos > 1
  /\ \A k \in 1..Len(call.data) : ~includes(toUpperCase(call.data[k].name), Dow)

\* The digits of a string, in order.
DigitsOf(s) == SelectSeq(s, LAMBDA c : c \in Digits)

\* The number of decimal points of a string.
Points(s) == Len(SelectSeq(s, LAMBDA c : c = "."))

\* What follows the first decimal point of a string.
RECURSIVE AfterPoint(_)
AfterPoint(s) ==
  IF s = <<>> THEN <<>>
  ELSE IF Head(s) = "." THEN Tail(s)
  ELSE AfterPoint(Tail(s))

\* The number a string with at most one decimal point denotes by its digits
\* and its point: the digits read as an integer, over ten to the number of
\* digits behind the point.
Denoted(s) == Normalise(DigitsValue(DigitsOf(s), 0), Len(DigitsOf(AfterPoint(s))))

\* A call of the close parser has returned.
Parses == call.op = "parseClose" /\ call.done

\* C18: for every raw string with at least one digit and at most one decimal
\* point, whatever other characters stand around and between the digits,
\* the parser returns the number denoted by its digits and decimal point;
\* for every string without a digit it returns no number.
C18_ParsesDigitsAndPoint ==
  Parses =>
    /\ (DigitsOf(call.raw) # <<>> /\ Points(call.raw) <= 1)
         => call.close = Denoted(call.raw)
    /\ DigitsOf(call.raw) = <<>> => call.close = NaN

\* C18 witness: a string with a thousands separator and a decimal point,
\* "1,2.1", has been parsed to 12.1.
C18_Witness ==
  /\ Parses
  /\ call.raw = <<"1", ",", "2", ".", "1">>
  /\ call.close = [m |-> 121, e |-> 1]

\* The string is a decimal numeral: digits with at most one decimal point
\* among them, and at least one digit.
IsNumeral(s) ==
  /\ \A k \in 1..Len(s) : s[k] \in Digits \/ s[k] = "."
  /\ Points(s) <= 1
  /\ DigitsOf(s) # <<>>

\* C19: the parser returns no number whenever the string left after
\* stripping the characters that are neither digit nor point is not a valid
\* decimal numeral, in particular when it is empty or holds more than one
\* decimal point.
C19_RejectsInvalidNumerals ==
  (Parses /\ ~IsNumeral(StripNonNumeric(call.raw))) => call.close = NaN

\* The civil date in Asia/Kolkata at an instant.
IstDate(t) == (t + IstOffset) \div HalfHoursPerDay

\* The instant of 00:00 UTC of a civil date.
UtcMidnight(d) == d * HalfHoursPerDay

\* A call of the date computation has returned.
Dates == call.op = "date" /\ call.done

\* C20: for any two run instants on the same civil date D in Asia/Kolkata
\* the resolved trading date is the same instant, UTC midnight of civil date
\* D - 1, whatever the time of day of either run.
C20_SameDaySameTradingDate ==
  Dates =>
    /\ call.date = UtcMidnight(IstDate(call.now) - 1)
    /\ \A t \in Instants :
         IstDate(t) = IstDate(call.now) => dateForStorage(t) = call.date

\* C20 witness: a run at 20:00 UTC of day 1, which is 01:30 of day 2 in
\* Asia/Kolkata, resolved UTC midnight of day 1.
C20_Witness ==
  /\ Dates
  /\ call.now = HalfHoursPerDay + 40
  /\ call.date = HalfHoursPerDay

\* The report the claim describes for body p fetched on day: one would-be
\* record for every tracked index from k on that resolves to an entry whose
\* prev_close parses and whose calendar has no holiday on the trading date,
\* in the order of the configuration.
RECURSIVE Report(_, _, _)
Report(p, day, k) ==
  IF k > Len(indices)
    THEN <<>>
    ELSE (IF hasValue[p][k] /\ (day - 1) \notin holidays[indices[k].holidayCalendar]
            THEN <<[oid |-> generateMockObjectId, index |-> indices[k].key,
                    date |-> day - 1, close |-> parsed[p][k]]>>
            ELSE <<>>)
         \o Report(p, day, k + 1)

\* C21: in test mode (--test) no step of a run of the server reads or
\* writes the store: the step leaves the store as it is and never suspends
\* the run at a store call.  The run of index.js whose fetch resolves with a
\* body it can walk through completes in that step, and the report it
\* returns holds exactly one would-be record (identifier, index key, trading
\* date, close) for every tracked index that resolved, was not on holiday
\* and parsed, in the order of the configuration, whatever the store holds.
C21_PreviewNeverTouchesStore ==
  [][isTestMode =>
       \A r \in Slots :
         (runs'[r] # runs[r] /\ runs'[r].prog # SaveEntryJs) =>
           /\ store' = store
           /\ ~AtStore(runs'[r])
           /\ \A p \in Completing :
                (runs[r].prog = IndexJs /\ FetchResolve(r, p)) =>
                  /\ runs'[r].pc = "done"
                  /\ runs'[r].testModeRecords = Report(p, today, 1)]_vars

\* A test run of index.js has returned a report with the record of 'dow'
\* only, 'gift-nifty' being on holiday, while the store already holds a
\* record of 'dow' with that date and close.
C21_Witness ==
  /\ isTestMode
  /\ 0 \in holidays["IN"]
  /\ \E r \in Slots :
       /\ runs[r].prog = IndexJs
       /\ runs[r].pc = "done"
       /\ Len(runs[r].testModeRecords) = 1
       /\ runs[r].testModeRecords[1].index = "dow"
       /\ \E d \in BagToSet(store) :
            /\ d.index = "dow"
            /\ d.date = runs[r].testModeRecords[1].date
            /\ d.close = runs[r].testModeRecords[1].close

NoResponse == [status |-> 0, success |-> FALSE]

\* app.get('/trigger'): await fetchAndStoreIndicesData(), then
\* res.json({ success: true, ... }), and res.status(500) in the catch branch.
triggerResponse(run) ==
  CASE promiseOf(run) = "pending" -> NoResponse
    [] promiseOf(run) = "fulfilled" -> [status |-> 200, success |-> TRUE]
    [] promiseOf(run) = "rejected" -> [status |-> 500, success |-> FALSE]

\* C22: GET /trigger responds only after the run it started has finished;
\* it reports failure when that run aborted because the fetch attempts were
\* exhausted or the body had an invalid shape, and success only when the run
\* completed.
C22_TriggerReportsOutcome ==
  ~isTestMode =>
    \A r \in Slots :
      runs[r].prog \in {IndexJs, Part003} =>
        /\ InProgress(runs[r]) => triggerResponse(runs[r]) = NoResponse
        /\ (runs[r].pc = "aborted" /\ runs[r].err.type \in {"http", "shape"}) =>
             /\ triggerResponse(runs[r]).status # 0
             /\ ~triggerResponse(runs[r]).success
        /\ triggerResponse(runs[r]).success => runs[r].pc = "done"

\* C23: every run performs the fetch procedure exactly once, before the
\* first tracked index is processed, and resolves every tracked index
\* against that one snapshot.  A run starts with no snapshot in hand and
\* holds none outside its per-index phase; it enters the per-index phase
\* only in the step in which its fetch resolves, with the body of that
\* fetch; while it is in that phase it starts no fetch and keeps that body;
\* and the close it writes is the one parsed from that body.
C23_OneSnapshotPerRun ==
  /\ [](\A r \in Slots : ~AtStore(runs[r]) => runs[r].res = 0)
  /\ [][\A r \in Slots :
          /\ (AtStore(runs'[r]) /\ ~AtStore(runs[r])) =>
               /\ runs[r].pc = "fetch"
               /\ \E p \in PayloadIds : FetchResolve(r, p) /\ runs'[r].res = p
          /\ AtStore(runs[r]) =>
               /\ runs'[r].pc \notin {"fetch", "delay"}
               /\ AtStore(runs'[r]) => runs'[r].res = runs[r].res
               /\ WriteDone(r) =>
                    BagIn(Doc(KeyOf(runs[r]), runs[r].yesterday,
                              parsed[runs[r].res][runs[r].idx]), store')]_vars

\* A run has written its first index and is at the read of the second one,
\* with the body it fetched.
C23_Witness ==
  \E r \in Slots :
    /\ runs[r].pc = "read"
    /\ runs[r].idx = 2
    /\ runs[r].res = 1
    /\ BagIn(Doc(indices[1].key, runs[r].yesterday, parsed[1][1]), store)

\* The response of a read endpoint sent in this step.
Answered == call'.op \in {"closes", "closesOf"}

\* The documents of a list, as a collection.
BagOf(list) ==
  LET elems == {list[j] : j \in 1..Len(list)}
  IN [x \in elems |-> Cardinality({j \in 1..Len(list) : list[j] = x})]

\* C24: no step of a run and no request of GET /closes or GET /closes/:index
\* removes a stored record: every (index key, trading date) that has a
\* record before the step has one after it and the store holds no fewer
\* records; a request of a read endpoint leaves the store unchanged and
\* answers with the stored records (all of them, or those of the index).
C24_NothingIsRemoved ==
  [][/\ \A key \in TrackedKeys, date \in Days :
          CountKey(store, key, date) > 0 => CountKey(store', key, date) > 0
     /\ BagCardinality(store') >= BagCardinality(store)
     /\ Answered =>
          /\ store' = store
          /\ call'.op = "closes" => BagOf(call'.data) = store
          /\ call'.op = "closesOf" =>
               \A d \in BagToSet(store) :
                 CopiesIn(d, BagOf(call'.data))
                   = IF <<d.index>> = call'.label THEN CopiesIn(d, store) ELSE 0]_vars

\* GET /closes has answered with two records of one index, the later one
\* written by a run that left the earlier one in place.
C24_Witness ==
  /\ call.op = "closes"
  /\ \E i, j \in 1..Len(call.data) :
       /\ call.data[i].index = call.data[j].index
       /\ call.data[i].date > call.data[j].date

\* C25: within one run the tracked indices are processed one after another
\* in the order of the configuration.  A run is suspended at one store call
\* at a time; its write of an index is issued only by the step in which its
\* read of that index resolves; and it reaches the read of an index only
\* from its fetch or when the read or the write of an earlier index has
\* ended, never from a later or the same index.
C25_OneIndexAtATime ==
  [][\A r \in Slots :
       (runs'[r] # runs[r] /\ AtStore(runs'[r])) =>
         /\ runs[r].pc \in {"fetch", "read", "write"}
         /\ runs'[r].pc = "write" =>
              /\ ReadResolve(r)
              /\ runs'[r].idx = runs[r].idx
         /\ (runs'[r].pc = "read" /\ AtStore(runs[r])) =>
              /\ ReadResolve(r) \/ WriteResolve(r) \/ WriteReject(r)
              /\ runs'[r].idx > runs[r].idx
         /\ runs'[r].idx \in 1..Len(indices)]_vars

\* A run that wrote the first index is suspended at the write of the second.
C25_Witness ==
  \E r \in Slots :
    /\ runs[r].pc = "write"
    /\ runs[r].idx = 2
    /\ BagIn(Doc(indices[1].key, runs[r].yesterday, parsed[runs[r].res][1]), store)
    /\ ~BagIn(Doc(indices[2].key, runs[r].yesterday, parsed[runs[r].res][2]), store)

\* C26: when MONGODB_URI or API_URL is absent at startup, the server process
\* has exited with status 1 without having connected to the store, fetched,
\* scheduled the daily job or begun to listen, a start of save_entry.js ends
\* the same way, and so no run ever starts, no request is answered and the
\* store stays as it was.
C26_MissingEnvExitsFirst ==
  EnvMissing(env) =>
    /\ boot.server = "exit1"
    /\ ~boot.connected /\ ~boot.shown /\ ~boot.scheduled /\ ~boot.listening
    /\ boot.script \in {"none", "exit1"}
    /\ \A r \in Slots : runs[r] = IdleRun
    /\ ~cronDue
    /\ call = NoCall
    /\ store = EmptyBag

\* With API_URL absent the server has exited, a start of save_entry.js has
\* exited as well, and a day has passed.
C26_Witness ==
  /\ env.MONGODB_URI /\ ~env.API_URL
  /\ boot.server = "exit1"
  /\ boot.script = "exit1"
  /\ today = MaxDay

\* C27: the write a reconcile makes for (indexKey, tradingDate) creates or
\* changes only a record with that key and date: every record with another
\* index key or another trading date is in the store after the write as
\* often and with the same close as before it, and the records of the pair
\* do not become fewer; a reconcile that skips its write changes no record.
C27_WriteTouchesItsKeyOnly ==
  [][\A r \in Slots :
       /\ (runs[r].pc = "write" /\ WriteDone(r)) =>
            /\ \A d \in BagToSet(store) \cup BagToSet(store') :
                 (d.index # KeyOf(runs[r]) \/ d.date # runs[r].yesterday) =>
                   CopiesIn(d, store') = CopiesIn(d, store)
            /\ CountKey(store', KeyOf(runs[r]), runs[r].yesterday)
                 >= CountKey(store, KeyOf(runs[r]), runs[r].yesterday)
            /\ BagIn(Doc(KeyOf(runs[r]), runs[r].yesterday, closeVal(runs[r])),
                     store')
       /\ (runs[r].pc = "read" /\ SkipDone(r)) => store' = store]_vars

\* A run of index.js is about to write a record of an index of which the
\* store holds a record of an earlier date, next to a record of the other
\* index.
C27_Witness ==
  \E r \in Slots :
    /\ runs[r].pc = "write"
    /\ runs[r].prog = IndexJs
    /\ \E d \in BagToSet(store) :
         d.index = KeyOf(runs[r]) /\ d.date < runs[r].yesterday
    /\ \E d \in BagToSet(store) : d.index # KeyOf(runs[r])

\* Every HTTP attempt, every delay and every store call of run slot r
\* eventually returns or fails.
CallsReturn(r) ==
  /\ WF_vars(FetchReject(r) \/ \E p \in PayloadIds : FetchResolve(r, p))
  /\ WF_vars(DelayElapsed(r))
  /\ WF_vars(ReadResolve(r) \/ ReadReject(r))
  /\ WF_vars(WriteResolve(r) \/ WriteReject(r))

\* The runs of one day of a server whose environment is complete.
DayInit == Init /\ env = FullEnv

DayNext ==
  \/ \E r \in Slots : CronFire(r)
  \/ \E r \in Slots : Trigger(r)
  \/ \E r \in Slots : TestRun(r)
  \/ \E r \in Slots : SaveEntryStart(r)
  \/ \E r \in Slots, p \in PayloadIds : FetchResolve(r, p)
  \/ \E r \in Slots : FetchReject(r)
  \/ \E r \in Slots : DelayElapsed(r)
  \/ \E r \in Slots : ReadResolve(r)
  \/ \E r \in Slots : ReadReject(r)
  \/ \E r \in Slots : WriteResolve(r)
  \/ \E r \in Slots : WriteReject(r)

FairSpec == DayInit /\ [][DayNext]_vars /\ \A r \in Slots : CallsReturn(r)

\* C28: every run that has started eventually ends, completed or aborted,
\* provided every HTTP attempt, delay and store call it waits for eventually
\* returns or fails.
C28_EveryRunEnds ==
  \A r \in Slots : InProgress(runs[r]) ~> Finished(runs[r])

\* One run has completed after a write and another has aborted on its last
\* attempt.
C28_Witness ==
  \E r, q \in Slots :
    /\ runs[r].pc = "done"
    /\ store # EmptyBag
    /\ runs[q].pc = "aborted"
    /\ runs[q].err = [type |-> "http", attempt |-> attempts]

\* C29: fetchWithRetry waits exactly one delay between two consecutive
\* attempts and none after a success or after the last failure, so k
\* attempts come with k - 1 delays.  A run starts at attempt 1; an attempt
\* that fails before the last one leads to a delay and to nothing else; a
\* delay leads to the next attempt and to nothing else; and any other end of
\* an attempt (a response, the failure of the last attempt) leads neither to
\* a delay nor to a further attempt.
C29_OneDelayBetweenAttempts ==
  [][\A r \in Slots :
       runs'[r] # runs[r] =>
         /\ runs[r].pc = "fetch" =>
              IF FetchReject(r) /\ runs[r].i < attempts
                THEN runs'[r] = [runs[r] EXCEPT !.pc = "delay"]
                ELSE runs'[r].pc \notin {"delay", "fetch"}
         /\ runs[r].pc = "delay" =>
              runs'[r] = [runs[r] EXCEPT !.pc = "fetch", !.i = @ + 1]
         /\ runs'[r].pc = "delay" => runs[r].pc = "fetch"
         /\ (runs'[r].pc = "fetch" /\ runs[r].pc \notin {"fetch", "delay"}) =>
              runs'[r].i = 1]_vars

\* A run is at its last attempt, two delays after its first, while another
\* run waits in the delay after its first attempt.
C29_Witness ==
  \E r, q \in Slots :
    /\ runs[r].pc = "fetch" /\ runs[r].i = attempts
    /\ runs[q].pc = "delay" /\ runs[q].i = 1

\* C30: for every run instant and every market calendar, the civil date the
\* run looks up in the holiday calendar is the civil date it persists as the
\* trading date.
C30_HolidayLookupUsesTradingDate ==
  (call.op = "holiday" /\ call.done) => call.lookup = call.date

\* C31: all records one run writes carry the same trading date.  The run
\* computes it in the step in which its fetch resolves, before its first
\* index, as the day before that day; it keeps it over all its store calls,
\* also when midnight passes meanwhile; and every record a write of the run
\* creates or changes carries it.
C31_OneTradingDatePerRun ==
  [][\A r \in Slots :
       /\ (~AtStore(runs[r]) /\ AtStore(runs'[r])) =>
            runs'[r].yesterday = today - 1
       /\ (AtStore(runs[r]) /\ AtStore(runs'[r])) =>
            runs'[r].yesterday = runs[r].yesterday
       /\ (runs[r].pc = "write" /\ WriteDone(r)) =>
            /\ \E d \in BagToSet(store') :
                 d.index = KeyOf(runs[r]) /\ d.date = runs[r].yesterday
            /\ \A d \in BagToSet(store) \cup BagToSet(store') :
                 CopiesIn(d, store') # CopiesIn(d, store) =>
                   d.date = runs[r].yesterday]_vars

\* A run that wrote its first index before midnight is at the write of its
\* second index after midnight.
C31_Witness ==
  \E r \in Slots :
    /\ runs[r].pc = "write"
    /\ runs[r].idx = 2
    /\ runs[r].yesterday = today - 2
    /\ BagIn(Doc(indices[1].key, runs[r].yesterday, parsed[runs[r].res][1]), store)
    /\ \A d \in BagToSet(store) : d.index = indices[1].key

\* The run in slot r is a run of the server that aborted.
AbortedServerRun(r) ==
  /\ ~isTestMode
  /\ runs[r].prog \in {IndexJs, Part003}
  /\ runs[r].pc = "aborted"

\* C32: a run never propagates an error to what started it.  The step in
\* which a run of the server aborts leaves the process as it was; while an
\* aborted run is on record the server is running, the daily job is
\* scheduled and the server listens, GET /trigger can start a run and so can
\* the timer when it is due; and a run the timer or GET /trigger starts is a
\* fresh one at its first attempt, whatever ended before it.
C32_AbortLeavesServerRunning ==
  /\ [](\A r \in Slots :
          AbortedServerRun(r) =>
            /\ boot.server = "up" /\ boot.scheduled /\ boot.listening
            /\ ENABLED (\E q \in Slots : Trigger(q))
            /\ cronDue => ENABLED (\E q \in Slots : CronFire(q)))
  /\ [][\A r \in Slots :
          /\ (runs'[r].pc = "aborted" /\ runs[r].pc # "aborted") => boot' = boot
          /\ (CronFire(r) \/ Trigger(r)) =>
               runs'[r] = [IdleRun EXCEPT !.prog = revision, !.pc = "fetch",
                                          !.i = 1]]_vars

\* On the second day, with one run aborted for a store error, the timer has
\* fired and its run is at its first attempt.
C32_Witness ==
  \E r, q \in Slots :
    /\ AbortedServerRun(r)
    /\ runs[r].err.type = "store"
    /\ today = MaxDay
    /\ ~cronDue
    /\ runs[q] = [IdleRun EXCEPT !.prog = revision, !.pc = "fetch", !.i = 1]

====
